---------------------------- MODULE Spec2Model ----------------------------
(***************************************************************************)
(* Model of tools/performance_plotter.py: run pidstat, parse its text      *)
(* output into records, aggregate CPU% / memory% per timestamp, render an  *)
(* HTML report and write it.                                               *)
(*                                                                         *)
(* A Python str is a sequence of one-character strings.  A float is an     *)
(* integer count of units of 2^-FracBits that has at most MantissaBits     *)
(* significant bits (binary floating point, round-half-to-even, as IEEE    *)
(* 754 binary64 with 53 bits scaled down).                                 *)
(***************************************************************************)
EXTENDS Integers, Sequences, FiniteSets, TLC

\* Bounds of the model.
MaxLines == 2
MaxRows == 3
MantissaBits == 4
FracBits == 1

-----------------------------------------------------------------------------
(* str helpers *)

Whitespace == {" ", "\t", "\n", "\r"}

MinOf(S) == CHOOSE x \in S : \A y \in S : x <= y
MaxOf(S) == CHOOSE x \in S : \A y \in S : x >= y

\* The k-th smallest element of a set of integers.
Nth(S, k) == CHOOSE x \in S : Cardinality({y \in S : y <= x}) = k

\* The concatenation of a sequence of sequences.
RECURSIVE FlattenRange(_, _, _)
FlattenRange(seqs, lo, hi) ==
    IF lo > hi THEN <<>>
    ELSE IF lo = hi THEN seqs[lo]
    ELSE LET mid == (lo + hi) \div 2
         IN  FlattenRange(seqs, lo, mid) \o FlattenRange(seqs, mid + 1, hi)

Flatten(seqs) == FlattenRange(seqs, 1, Len(seqs))

\* str.splitlines(): a line ends at \n, \r or \r\n; the text after the last
\* line end is a line if it is not empty.
SplitLines(s) ==
    LET n == Len(s)
        \* the last character of each line terminator
        ends == {i \in 1..n : \/ s[i] = "\n"
                              \/ s[i] = "\r" /\ ~(i < n /\ s[i + 1] = "\n")}
        count == Cardinality(ends)
        first(k) == IF k = 1 THEN 1 ELSE Nth(ends, k - 1) + 1
        last(k) == LET e == Nth(ends, k)
                   IN  IF s[e] = "\n" /\ e > first(k) /\ s[e - 1] = "\r"
                       THEN e - 2 ELSE e - 1
        tail == IF count = 0 THEN 1 ELSE MaxOf(ends) + 1
    IN  [k \in 1..count |-> SubSeq(s, first(k), last(k))]
        \o (IF tail <= n THEN << SubSeq(s, tail, n) >> ELSE <<>>)

\* str.strip(): drop leading and trailing whitespace.
Strip(s) ==
    LET nz == {i \in 1..Len(s) : s[i] \notin Whitespace}
    IN  IF nz = {} THEN <<>> ELSE SubSeq(s, MinOf(nz), MaxOf(nz))

\* str.split(): the maximal runs of non-whitespace, in order.
Split(s) ==
    LET n == Len(s)
        starts == {i \in 1..n : s[i] \notin Whitespace
                                /\ (i = 1 \/ s[i - 1] \in Whitespace)}
        stops == {i \in 1..n : s[i] \notin Whitespace
                               /\ (i = n \/ s[i + 1] \in Whitespace)}
    IN  [k \in 1..Cardinality(starts) |-> SubSeq(s, Nth(starts, k), Nth(stops, k))]

\* str.startswith(prefix) and str.startswith(tuple of prefixes).
StartsWith(s, p) == Len(s) >= Len(p) /\ SubSeq(s, 1, Len(p)) = p
StartsWithAny(s, ps) == \E p \in ps : StartsWith(s, p)

\* str.replace(old, new) for a one-character old.
Replace(s, old, new) ==
    Flatten([i \in 1..Len(s) |-> IF s[i] = old THEN new ELSE << s[i] >>])

-----------------------------------------------------------------------------
(* parse_pidstat_output *)

TABLE_COLUMNS ==
    << "time", "uid", "pid", "usr_pct", "system_pct", "guest_pct", "cpu_pct",
       "cpu", "minflt_s", "majflt_s", "vsz", "rss", "mem_pct", "kb_rd_s",
       "kb_wr_s", "kb_ccwr_s", "iodelay" >>

\* The prefixes of the lines that carry no data.
Markers ==
    { <<"L", "i", "n", "u", "x">>, <<"#">>,
      <<"A", "v", "e", "r", "a", "g", "e", ":">> }

\* dict(zip(keys, values)): pairs up to the shorter of the two.
DictZip(keys, values) ==
    LET n == IF Len(keys) < Len(values) THEN Len(keys) ELSE Len(values)
    IN  [k \in {keys[i] : i \in 1..n} |->
            values[CHOOSE i \in 1..n : keys[i] = k]]

\* The rows one line contributes: none or one.
ParseLineDropsExact(line) ==
    LET stripped == Strip(line)
        parts == Split(stripped)
    IN  IF stripped = <<>> \/ StartsWithAny(stripped, Markers) THEN <<>>
        ELSE IF Len(parts) <= Len(TABLE_COLUMNS) THEN <<>>
        ELSE << DictZip(TABLE_COLUMNS, parts) >>

ParseLineUnstripped(line) ==
    LET stripped == Strip(line)
        parts == Split(stripped)
    IN  IF stripped = <<>> \/ StartsWithAny(line, Markers) THEN <<>>
        ELSE IF Len(parts) < Len(TABLE_COLUMNS) THEN <<>>
        ELSE << DictZip(TABLE_COLUMNS, parts) >>

ParseLine(line) ==
    LET stripped == Strip(line)
        parts == Split(stripped)
    IN  IF stripped = <<>> \/ StartsWithAny(stripped, Markers) THEN <<>>
        ELSE IF Len(parts) < Len(TABLE_COLUMNS) THEN <<>>
        ELSE << DictZip(TABLE_COLUMNS, parts) >>

\* for line in stdout.splitlines(): ... rows.append(row)
parse_pidstat_output(stdout) ==
    LET lines == SplitLines(stdout)
    IN  Flatten([i \in 1..Len(lines) |-> ParseLine(lines[i])])

-----------------------------------------------------------------------------
(* float: float(str) and float addition *)

Digits == {"0", "1", "2", "3", "4", "5", "6", "7", "8", "9"}

DigitValue(c) ==
    CASE c = "0" -> 0 [] c = "1" -> 1 [] c = "2" -> 2 [] c = "3" -> 3
      [] c = "4" -> 4 [] c = "5" -> 5 [] c = "6" -> 6 [] c = "7" -> 7
      [] c = "8" -> 8 [] c = "9" -> 9

RECURSIVE Pow(_, _)
Pow(b, n) == IF n = 0 THEN 1 ELSE b * Pow(b, n - 1)

RECURSIVE BitLen(_)
BitLen(n) == IF n = 0 THEN 0 ELSE 1 + BitLen(n \div 2)

\* num/den (num >= 0, den > 0) rounded to the nearest float, ties to the even
\* mantissa.
RoundRatio(num, den) ==
    LET fl == num \div den
        ulp == IF BitLen(fl) <= MantissaBits THEN 1
               ELSE Pow(2, BitLen(fl) - MantissaBits)
        q == num \div (den * ulp)
        r == num - q * den * ulp
        up == 2 * r > den * ulp \/ (2 * r = den * ulp /\ q % 2 = 1)
    IN  (IF up THEN q + 1 ELSE q) * ulp

RoundInt(x) == IF x < 0 THEN 0 - RoundRatio(0 - x, 1) ELSE RoundRatio(x, 1)

\* a + b on floats: the exact sum, rounded.
FloatAdd(a, b) == RoundInt(a + b)

\* The float of a small integer literal (0.0 is FloatOf(0)).
FloatOf(n) == RoundInt(n * Pow(2, FracBits))

\* The decimal literals float() accepts, of the forms the sampler prints:
\* an optional sign, digits with at most one point, at least one digit.
\* (Exponents, underscores, inf and nan do not occur in the modelled output.)
Unsigned(tok) ==
    IF tok # <<>> /\ Head(tok) \in {"+", "-"} THEN Tail(tok) ELSE tok

IsFloatLiteral(tok) ==
    LET u == Unsigned(tok)
    IN  /\ \A i \in 1..Len(u) : u[i] \in Digits \cup {"."}
        /\ Cardinality({i \in 1..Len(u) : u[i] = "."}) <= 1
        /\ \E i \in 1..Len(u) : u[i] \in Digits

RECURSIVE DigitsValue(_)
DigitsValue(ds) ==
    IF ds = <<>> THEN 0
    ELSE 10 * DigitsValue(SubSeq(ds, 1, Len(ds) - 1)) + DigitValue(ds[Len(ds)])

\* float(tok) for a literal: the decimal value rounded to the nearest float.
ParseFloat(tok) ==
    LET u == Unsigned(tok)
        ds == SelectSeq(u, LAMBDA c : c \in Digits)
        dots == {i \in 1..Len(u) : u[i] = "."}
        nfrac == IF dots = {} THEN 0 ELSE Len(u) - MinOf(dots)
        mag == RoundRatio(DigitsValue(ds) * Pow(2, FracBits), Pow(10, nfrac))
    IN  IF Head(tok) = "-" THEN 0 - mag ELSE mag

-----------------------------------------------------------------------------
(* html.escape and json.dumps of a str *)

AMP == <<"&", "a", "m", "p", ";">>
LT == <<"&", "l", "t", ";">>
GT == <<"&", "g", "t", ";">>
QUOT == <<"&", "q", "u", "o", "t", ";">>
APOS == <<"&", "#", "x", "2", "7", ";">>

\* Faulty variant of html.escape: & is replaced last.
HtmlEscapeAmpLast(s) ==
    Replace(Replace(Replace(Replace(Replace(s, "<", LT), ">", GT),
                            "\"", QUOT), "'", APOS), "&", AMP)

\* html.escape(s): & first, then < > " '
HtmlEscape(s) ==
    Replace(Replace(Replace(Replace(Replace(s, "&", AMP), "<", LT), ">", GT),
                    "\"", QUOT), "'", APOS)

\* json.dumps(s) of a str of printable ASCII: quoted, with \ and " escaped.
\* '<', '>' and '&' pass unchanged.
JsonString(s) ==
    <<"\"">> \o Replace(Replace(s, "\\", <<"\\", "\\">>), "\"", <<"\\", "\"">>)
             \o <<"\"">>

-----------------------------------------------------------------------------
(* build_html *)

EmptyDict == [k \in {} |-> 0]

\* float(row["cpu_pct"]) or float(row["mem_pct"]) raises ValueError.
RaisesValueError(rows) ==
    \E i \in 1..Len(rows) :
        ~IsFloatLiteral(rows[i]["cpu_pct"]) \/ ~IsFloatLiteral(rows[i]["mem_pct"])

\* Faulty variants of the accumulation step.
AccumulateOverwrites(entry, cpu, mem) == [cpu |-> cpu, mem |-> mem]

AccumulateMemFromCpu(entry, cpu, mem) ==
    [cpu |-> FloatAdd(entry.cpu, cpu), mem |-> FloatAdd(entry.mem, cpu)]

\* aggregated[time_key]["cpu"] += cpu; aggregated[time_key]["mem"] += mem
Accumulate(entry, cpu, mem) ==
    [cpu |-> FloatAdd(entry.cpu, cpu), mem |-> FloatAdd(entry.mem, mem)]

\* Faulty variant: the timestamp is appended for every row.
NoteTimeAlways(time_order, aggregated, time_key) == Append(time_order, time_key)

\* if time_key not in aggregated: time_order.append(time_key)
NoteTime(time_order, aggregated, time_key) ==
    IF time_key \notin DOMAIN aggregated THEN Append(time_order, time_key)
    ELSE time_order

\* The aggregation loop over rows[i..]; every cpu_pct and mem_pct is a literal.
RECURSIVE AggregateFrom(_, _, _, _)
AggregateFrom(rows, i, aggregated, time_order) ==
    IF i > Len(rows)
    THEN [aggregated |-> aggregated, time_order |-> time_order]
    ELSE LET row == rows[i]
             time_key == row["time"]
             cpu == ParseFloat(row["cpu_pct"])
             mem == ParseFloat(row["mem_pct"])
             entry == IF time_key \in DOMAIN aggregated
                      THEN aggregated[time_key]
                      ELSE [cpu |-> FloatOf(0), mem |-> FloatOf(0)]
             others == [k \in DOMAIN aggregated \ {time_key} |-> aggregated[k]]
         IN  AggregateFrom(rows, i + 1,
                           (time_key :> Accumulate(entry, cpu, mem)) @@ others,
                           NoteTime(time_order, aggregated, time_key))

Aggregate(rows) == AggregateFrom(rows, 1, EmptyDict, <<>>)

\* [aggregated[t][field] for t in times]
Series(aggregated, times, field) ==
    [i \in 1..Len(times) |-> aggregated[times[i]][field]]

\* One <tr> of the table: the four escaped cell texts.
RowCells(row) ==
    << HtmlEscape(row["time"]), HtmlEscape(row["pid"]),
       HtmlEscape(row["cpu_pct"]), HtmlEscape(row["mem_pct"]) >>

\* The document build_html returns, as the texts it puts into the holes of
\* its fixed template: the table rows, the <pre> block and the chart data
\* literal of the <script> element.
build_html(rows, raw_output) ==
    LET agg == Aggregate(rows)
        times == agg.time_order
    IN  [ row_cells |-> [i \in 1..Len(rows) |-> RowCells(rows[i])],
          pre |-> HtmlEscape(raw_output),
          chart_data |->
              [ labels |-> [i \in 1..Len(times) |-> JsonString(times[i])],
                cpu |-> Series(agg.aggregated, times, "cpu"),
                mem |-> Series(agg.aggregated, times, "mem") ] ]

-----------------------------------------------------------------------------
(* The inputs: what pidstat may print, and the rows build_html may be given *)

ZERO == <<"0">>
TIME1 == <<"1", "0", ":", "0", "1">>
TIME2 == <<"1", "0", ":", "0", "2">>
TAG == <<"<", "b", ">">>

Join(parts, sep) ==
    Flatten([i \in 1..Len(parts) |-> IF i = 1 THEN parts[i] ELSE sep \o parts[i]])

\* The 17 tokens of a data line with the given time, PID, %CPU and %MEM.
DataTokens(time, pid, cpu, mem) ==
    << time, ZERO, pid, ZERO, ZERO, ZERO, cpu, ZERO, ZERO, ZERO, ZERO, ZERO,
       mem, ZERO, ZERO, ZERO, ZERO >>

SamplerLines ==
    { <<>>,
      <<" ", "\t">>,
      Join(<< <<"L", "i", "n", "u", "x">>, <<"6", ".", "1">> >>, <<" ">>),
      Join(<< <<"#">> >> \o DataTokens(<<"T">>, <<"P">>, <<"C">>, <<"M">>), <<" ">>),
      <<" ">> \o Join(<< <<"A", "v", "e", "r", "a", "g", "e", ":">> >> \o Tail(DataTokens(ZERO, <<"1">>, <<"3">>, <<"1">>)),
                      <<" ">>),
      Join(DataTokens(TIME1, <<"1">>, <<"1", "0">>, <<"1">>), <<" ">>),
      <<"\t">> \o Join(DataTokens(TIME1, <<"2">>, <<"2", "0">>, <<"0", ".", "5">>) \o << <<"s", "h">> >>,
                       <<" ", " ">>) \o <<"\r">>,
      Join(SubSeq(DataTokens(TIME1, <<"3">>, <<"1">>, <<"1">>), 1, 16), <<" ">>),
      Join(DataTokens(TAG, <<"&">>, <<"2">>, <<"2">>), <<"\t">>),
      Join(DataTokens(TIME2, <<"1">>, <<"x">>, <<"1">>), <<" ">>),
      Join(DataTokens(TIME2, <<"4">>, <<"1">>, <<"1", "6">>), <<" ">>) }

RECURSIVE Texts(_)
Texts(n) ==
    IF n = 0 THEN {<<>>}
    ELSE LET shorter == Texts(n - 1)
         IN  shorter \cup {l \o <<"\n">> \o t : l \in SamplerLines,
                                               t \in {u \in shorter : TRUE}}

\* Every text of at most MaxLines lines, each ended by a newline.
SamplerOutputs == Texts(MaxLines)

Row(time, pid, cpu, mem) == DictZip(TABLE_COLUMNS, DataTokens(time, pid, cpu, mem))

Records ==
    { Row(TIME2, <<"1">>, <<"1", "0">>, <<"1">>),
      Row(TIME2, <<"2">>, <<"2", "0">>, <<"0", ".", "5">>),
      Row(TIME2, <<"3">>, <<"1", "6">>, <<"1">>),
      Row(TIME2, <<"4">>, <<"1">>, <<"1", "6">>),
      Row(TAG, <<"&">>, <<"2">>, <<"2">>),
      Row(TIME1, <<"1">>, <<"x">>, <<"1">>) }

RowSeqs == UNION {[1..n -> Records] : n \in 0..MaxRows}

RawTexts == { <<>>, <<"<", "a", ">", "&", "\"", "'", "&", "l", "t", ";">> }

-----------------------------------------------------------------------------
(* main *)

VARIABLES
    pc,              \* the statement main executes next, "done" after exit
    pidstat_output,  \* run_pidstat's return value
    returncode,      \* pidstat's exit status, -1 before it ran
    rows,            \* parse_pidstat_output's return value
    html_report,     \* <<>> or <<the document build_html returned>>
    report_file,     \* <<>> or <<the content of args.output>>
    printed,         \* "Report written to ..." is on stdout
    exit_status,     \* the process's exit status, -1 while it runs
    error,           \* the exception that ended the run, "" if none
    pidstat_runs,    \* how often pidstat was executed
    writes,          \* how often args.output was written
    steps            \* the statements of main executed so far

vars == << pc, pidstat_output, returncode, rows, html_report, report_file,
           printed, exit_status, error, pidstat_runs, writes, steps >>

\* Faulty variant: subprocess.run(..., check=False).
CheckIgnored(rc) == FALSE

\* subprocess.run(..., check=True) raises CalledProcessError.
CheckRaises(rc) == rc # 0

\* Faulty variant: the empty result is not tested.
NotRowsIgnored(rs) == FALSE

\* not rows
NotRows(rs) == rs = <<>>

\* The state when parse_args has returned.
Init ==
    /\ pc = "run_pidstat"
    /\ pidstat_output = <<>>
    /\ returncode = -1
    /\ rows = <<>>
    /\ html_report = <<>>
    /\ report_file = <<>>
    /\ printed = FALSE
    /\ exit_status = -1
    /\ error = ""
    /\ pidstat_runs = 0
    /\ writes = 0
    /\ steps = <<>>

\* An uncaught exception, or SystemExit with a message: the message goes to
\* stderr and the process exits with status 1.
Raise(exc) ==
    /\ pc' = "done"
    /\ exit_status' = 1
    /\ error' = exc

\* pidstat_output = run_pidstat(args.pid, args.interval, args.count)
RunPidstat ==
    /\ pc = "run_pidstat"
    /\ \E out \in SamplerOutputs, rc \in {0, 1} :
        /\ returncode' = rc
        /\ IF CheckRaises(rc)
           THEN /\ Raise("CalledProcessError")
                /\ UNCHANGED pidstat_output
           ELSE /\ pidstat_output' = out
                /\ pc' = "parse"
                /\ UNCHANGED << exit_status, error >>
    /\ pidstat_runs' = pidstat_runs + 1
    /\ steps' = Append(steps, "run_pidstat")
    /\ UNCHANGED << rows, html_report, report_file, printed, writes >>

\* rows = parse_pidstat_output(pidstat_output)
ParseOutput ==
    /\ pc = "parse"
    /\ rows' = parse_pidstat_output(pidstat_output)
    /\ pc' = "check"
    /\ steps' = Append(steps, "parse")
    /\ UNCHANGED << pidstat_output, returncode, html_report, report_file,
                    printed, exit_status, error, pidstat_runs, writes >>

\* if not rows: raise SystemExit("No pidstat rows parsed; ...")
CheckRows ==
    /\ pc = "check"
    /\ IF NotRows(rows)
       THEN Raise("SystemExit")
       ELSE /\ pc' = "build_html"
            /\ UNCHANGED << exit_status, error >>
    /\ steps' = Append(steps, "check")
    /\ UNCHANGED << pidstat_output, returncode, rows, html_report, report_file,
                    printed, pidstat_runs, writes >>

\* html_report = build_html(rows, pidstat_output, ...)
BuildHtml ==
    /\ pc = "build_html"
    /\ IF RaisesValueError(rows)
       THEN /\ Raise("ValueError")
            /\ UNCHANGED html_report
       ELSE /\ html_report' = << build_html(rows, pidstat_output) >>
            /\ pc' = "write_report"
            /\ UNCHANGED << exit_status, error >>
    /\ steps' = Append(steps, "build_html")
    /\ UNCHANGED << pidstat_output, returncode, rows, report_file, printed,
                    pidstat_runs, writes >>

\* write_report(html_report, args.output)
WriteReport ==
    /\ pc = "write_report"
    /\ report_file' = html_report
    /\ writes' = writes + 1
    /\ pc' = "print"
    /\ steps' = Append(steps, "write_report")
    /\ UNCHANGED << pidstat_output, returncode, rows, html_report, printed,
                    exit_status, error, pidstat_runs >>

\* print(f"Report written to {args.output.resolve()}"), and main returns
PrintPath ==
    /\ pc = "print"
    /\ printed' = TRUE
    /\ pc' = "done"
    /\ exit_status' = 0
    /\ steps' = Append(steps, "print")
    /\ UNCHANGED << pidstat_output, returncode, rows, html_report, report_file,
                    error, pidstat_runs, writes >>

Next ==
    \/ RunPidstat
    \/ ParseOutput
    \/ CheckRows
    \/ BuildHtml
    \/ WriteReport
    \/ PrintPath

Spec == Init /\ [][Next]_vars

\* build_html called on its own, with any rows and any raw text.
InitBuild ==
    /\ pc = "build_html"
    /\ rows \in RowSeqs
    /\ pidstat_output \in RawTexts
    /\ returncode = 0
    /\ html_report = <<>>
    /\ report_file = <<>>
    /\ printed = FALSE
    /\ exit_status = -1
    /\ error = ""
    /\ pidstat_runs = 0
    /\ writes = 0
    /\ steps = <<>>

NextBuild == BuildHtml

SpecBuild == InitBuild /\ [][NextBuild]_vars

-----------------------------------------------------------------------------
(* Properties *)

HasRun(step) == \E i \in 1..Len(steps) : steps[i] = step

Built == html_report # <<>>
Doc == html_report[1]

\* The trimmed line begins with one of the marker prefixes.
IsMarkerLine(line) == StartsWithAny(Strip(line), Markers)
IsBlankLine(line) == Strip(line) = <<>>
TokenCount(line) == Len(Split(Strip(line)))

Contains(s, c) == \E i \in 1..Len(s) : s[i] = c
HasMarkup(s) == Contains(s, "<") \/ Contains(s, ">") \/ Contains(s, "&")

\* C1: parse_pidstat_output returns, in input line order, exactly one record
\* for each line that is neither blank nor a marker line and has 17 or more
\* tokens, and none for any other line; the record maps the 17 column names,
\* in schema order, to the line's first 17 tokens (time = token 1, pid =
\* token 3, cpu_pct = token 7, mem_pct = token 13).
C1_ParseContract ==
    HasRun("parse") =>
        LET lines == SplitLines(pidstat_output)
            data == {i \in 1..Len(lines) :
                        /\ ~IsBlankLine(lines[i])
                        /\ ~IsMarkerLine(lines[i])
                        /\ TokenCount(lines[i]) >= 17}
        IN  /\ Len(TABLE_COLUMNS) = 17
            /\ Len(rows) = Cardinality(data)
            /\ \A k \in 1..Len(rows) :
                LET toks == Split(lines[Nth(data, k)])
                IN  /\ DOMAIN rows[k] = {TABLE_COLUMNS[j] : j \in 1..17}
                    /\ \A j \in 1..17 : rows[k][TABLE_COLUMNS[j]] = toks[j]
                    /\ rows[k]["time"] = toks[1]
                    /\ rows[k]["pid"] = toks[3]
                    /\ rows[k]["cpu_pct"] = toks[7]
                    /\ rows[k]["mem_pct"] = toks[13]

\* A 16-token line is dropped and an 18-token line after it gives the record.
C1_Witness ==
    /\ HasRun("parse")
    /\ Len(rows) = 1
    /\ LET lines == SplitLines(pidstat_output)
       IN  /\ Len(lines) = 2
           /\ TokenCount(lines[1]) = 16 /\ ~IsMarkerLine(lines[1])
           /\ TokenCount(lines[2]) = 18

\* C2: no record comes from a line whose trimmed content begins with "Linux",
\* "#" or "Average:", whatever its token count and leading whitespace: no
\* record's first token begins with a marker, and there are no more records
\* than lines that are not marker lines.
C2_MarkersExcluded ==
    HasRun("parse") =>
        LET lines == SplitLines(pidstat_output)
        IN  /\ \A k \in 1..Len(rows) : ~StartsWithAny(rows[k]["time"], Markers)
            /\ Len(rows) <= Cardinality({i \in 1..Len(lines) : ~IsMarkerLine(lines[i])})

\* An indented marker line of 17 tokens beside a data line.
C2_Witness ==
    /\ HasRun("parse")
    /\ Len(rows) = 1
    /\ \E line \in {SplitLines(pidstat_output)[i] :
                        i \in 1..Len(SplitLines(pidstat_output))} :
        /\ IsMarkerLine(line)
        /\ line[1] \in Whitespace
        /\ TokenCount(line) >= 17

\* The timestamps of the rows, and the rows where each occurs first.
TimeSet(rs) == {rs[i]["time"] : i \in 1..Len(rs)}
FirstOccurrences(rs) ==
    {i \in 1..Len(rs) : \A j \in 1..(i - 1) : rs[j]["time"] # rs[i]["time"]}
SharingTime(rs, t) == {i \in 1..Len(rs) : rs[i]["time"] = t}

\* The labels list each distinct timestamp once, in first-occurrence order.
LabelsInFirstOccurrenceOrder ==
    LET first == FirstOccurrences(rows)
    IN  Doc.chart_data.labels =
            [k \in 1..Cardinality(first) |-> JsonString(rows[Nth(first, k)]["time"])]

\* The reorderings of rs that only permute records sharing a timestamp.
Reorderings(rs) ==
    {[i \in 1..Len(rs) |-> rs[p[i]]] :
        p \in {q \in Permutations(1..Len(rs)) :
                  \A i \in 1..Len(rs) : rs[q[i]]["time"] = rs[i]["time"]}}

\* C3 as stated: the labels are in first-occurrence order and permuting the
\* records that share a timestamp leaves every timestamp's sums unchanged.
C3_OrderIndependentSums ==
    Built =>
        /\ LabelsInFirstOccurrenceOrder
        /\ \A rs \in Reorderings(rows) :
            build_html(rs, pidstat_output).chart_data = Doc.chart_data

\* C3 amended: the labels are in first-occurrence order, and permuting the
\* records that share a timestamp leaves the sums of every timestamp that at
\* most two records share unchanged.
C3_FirstOccurrenceAndPairSums ==
    Built =>
        /\ LabelsInFirstOccurrenceOrder
        /\ \A rs \in Reorderings(rows) :
            LET other == build_html(rs, pidstat_output).chart_data
            IN  /\ other.labels = Doc.chart_data.labels
                /\ \A k \in 1..Len(other.labels) :
                    LET t == rows[Nth(FirstOccurrences(rows), k)]["time"]
                    IN  Cardinality(SharingTime(rows, t)) <= 2 =>
                            /\ other.cpu[k] = Doc.chart_data.cpu[k]
                            /\ other.mem[k] = Doc.chart_data.mem[k]

\* Two timestamps, the first one shared by two records that differ in %CPU
\* and %MEM, the second one seen between them.
C3_Witness ==
    /\ Built
    /\ Len(rows) = 3
    /\ rows[1]["time"] = rows[3]["time"]
    /\ rows[1]["time"] # rows[2]["time"]
    /\ rows[1]["cpu_pct"] # rows[3]["cpu_pct"]
    /\ rows[1]["mem_pct"] # rows[3]["mem_pct"]
    /\ Len(Doc.chart_data.labels) = 2

\* The running total of a field over the records sharing timestamp t, added in
\* record order from 0.0.
RECURSIVE SumUpTo(_, _, _, _)
SumUpTo(rs, t, field, n) ==
    IF n = 0 THEN FloatOf(0)
    ELSE IF rs[n]["time"] = t
         THEN FloatAdd(SumUpTo(rs, t, field, n - 1), ParseFloat(rs[n][field]))
         ELSE SumUpTo(rs, t, field, n - 1)

SumFor(rs, t, field) == SumUpTo(rs, t, field, Len(rs))

\* C4: the labels, cpu and mem arrays of the chart data have the same length,
\* the number of distinct timestamps of the records (0 for no records), and
\* the i-th cpu and mem values are the sums for the i-th label.
C4_ParallelArrays ==
    Built =>
        LET data == Doc.chart_data
        IN  /\ Len(data.labels) = Cardinality(TimeSet(rows))
            /\ Len(data.cpu) = Len(data.labels)
            /\ Len(data.mem) = Len(data.labels)
            /\ \A i \in 1..Len(data.labels) :
                \E t \in TimeSet(rows) :
                    /\ data.labels[i] = JsonString(t)
                    /\ data.cpu[i] = SumFor(rows, t, "cpu_pct")
                    /\ data.mem[i] = SumFor(rows, t, "mem_pct")

\* More records than timestamps.
C4_Witness ==
    /\ Built
    /\ Len(rows) = 3
    /\ Cardinality(TimeSet(rows)) = 2
    /\ Len(Doc.chart_data.mem) = 2

Entities == {AMP, LT, GT, QUOT, APOS}
EntityChar(p) ==
    CASE p = AMP -> "&" [] p = LT -> "<" [] p = GT -> ">"
      [] p = QUOT -> "\"" [] p = APOS -> "'"

IsAt(e, i, p) == i + Len(p) - 1 <= Len(e) /\ SubSeq(e, i, i + Len(p) - 1) = p
EntityStarts(e) == {i \in 1..Len(e) : \E p \in Entities : IsAt(e, i, p)}
EntityAt(e, i) == CHOOSE p \in Entities : IsAt(e, i, p)

\* What a browser shows for text e: each entity read back as its character.
Unescape(e) ==
    LET starts == EntityStarts(e)
        inside(i) == \E k \in starts : k < i /\ i < k + Len(EntityAt(e, k))
    IN  Flatten([i \in 1..Len(e) |->
                    IF inside(i) THEN <<>>
                    ELSE IF i \in starts THEN << EntityChar(EntityAt(e, i)) >>
                    ELSE << e[i] >>])

\* Text e shows value v and holds no markup of its own: no raw < or >, every
\* & begins an entity, and the entities read back give v.
ShowsEscaped(e, v) ==
    /\ ~Contains(e, "<")
    /\ ~Contains(e, ">")
    /\ \A i \in 1..Len(e) : e[i] = "&" => i \in EntityStarts(e)
    /\ Unescape(e) = v

\* C5: every <, > and & of a table cell value (time, pid, cpu_pct, mem_pct)
\* and of the raw text in the <pre> block is in the document as an entity,
\* never as a raw character.
C5_TableAndPreEscaped ==
    Built =>
        /\ Len(Doc.row_cells) = Len(rows)
        /\ \A i \in 1..Len(rows) :
            /\ ShowsEscaped(Doc.row_cells[i][1], rows[i]["time"])
            /\ ShowsEscaped(Doc.row_cells[i][2], rows[i]["pid"])
            /\ ShowsEscaped(Doc.row_cells[i][3], rows[i]["cpu_pct"])
            /\ ShowsEscaped(Doc.row_cells[i][4], rows[i]["mem_pct"])
        /\ ShowsEscaped(Doc.pre, pidstat_output)

\* Markup in a cell value and in the raw text.
C5_Witness ==
    /\ Built
    /\ \E i \in 1..Len(rows) : Contains(rows[i]["time"], "<") /\ rows[i]["pid"] = <<"&">>
    /\ Contains(pidstat_output, "<") /\ Contains(pidstat_output, "&")

\* C6 as stated: no text of the tool output is in the document with a raw <,
\* > or &; in particular no label of the chart data literal is.
C6_LabelsEscaped ==
    Built =>
        \A i \in 1..Len(Doc.chart_data.labels) : ~HasMarkup(Doc.chart_data.labels[i])

\* The sampler output holds no line that gives a record.
OnlyNoise ==
    \A line \in {SplitLines(pidstat_output)[i] : i \in 1..Len(SplitLines(pidstat_output))} :
        IsBlankLine(line) \/ IsMarkerLine(line) \/ TokenCount(line) < 17

\* C7: when the output holds only blank lines, marker lines and lines of fewer
\* than 17 tokens, the parse gives no rows, and with no rows main exits with a
\* non-zero status and the SystemExit message, without rendering or writing.
C7_EmptyParseFails ==
    /\ (HasRun("parse") /\ OnlyNoise) => rows = <<>>
    /\ (HasRun("parse") /\ rows = <<>>) =>
        /\ pc \in {"check", "done"}
        /\ ~HasRun("build_html") /\ ~HasRun("write_report")
        /\ html_report = <<>> /\ report_file = <<>> /\ writes = 0
        /\ ~printed
        /\ pc = "done" => (exit_status # 0 /\ error = "SystemExit")

\* A run over a banner and a short line has ended.
C7_Witness ==
    /\ pc = "done"
    /\ error = "SystemExit"
    /\ Len(SplitLines(pidstat_output)) = 2
    /\ \E i \in 1..2 : IsMarkerLine(SplitLines(pidstat_output)[i])
    /\ \E i \in 1..2 : TokenCount(SplitLines(pidstat_output)[i]) = 16

\* C8 as stated: the only fatal conditions are pidstat's non-zero exit and an
\* empty parse, so a run whose output gives at least one record renders,
\* writes and exits zero.
C8_RecordsNeverAbort ==
    /\ error \in {"", "CalledProcessError", "SystemExit"}
    /\ (pc = "done" /\ returncode = 0 /\ rows # <<>>) =>
        /\ exit_status = 0
        /\ HasRun("build_html") /\ HasRun("write_report")
        /\ report_file # <<>>

MainOrder ==
    << "run_pidstat", "parse", "check", "build_html", "write_report", "print" >>

\* C9: the steps run in the order sample, parse, empty check, render, write,
\* print; pidstat is executed exactly once; the file is written at most once,
\* only after a successful sample and a parse with records; a non-zero exit of
\* pidstat ends the run with a non-zero status before any parse, render or
\* write; success prints the path after the write and exits zero.
C9_Orchestration ==
    /\ Len(steps) <= Len(MainOrder) /\ steps = SubSeq(MainOrder, 1, Len(steps))
    /\ pidstat_runs <= 1
    /\ (steps # <<>> \/ pc = "done") => pidstat_runs = 1
    /\ writes <= 1
    /\ (writes = 1) = (report_file # <<>>)
    /\ report_file # <<>> =>
        /\ returncode = 0 /\ rows # <<>>
        /\ html_report # <<>> /\ report_file = html_report
    /\ returncode \notin {-1, 0} =>
        /\ pc = "done" /\ exit_status # 0 /\ error = "CalledProcessError"
        /\ steps = << "run_pidstat" >>
        /\ rows = <<>> /\ html_report = <<>> /\ report_file = <<>> /\ ~printed
    /\ printed => (report_file # <<>> /\ pc = "done" /\ exit_status = 0)
    /\ exit_status = 0 => (printed /\ steps = MainOrder)
    /\ pc = "done" => exit_status \in {0, 1}

\* A run that went through all six steps.
C9_Witness == pc = "done" /\ printed /\ Len(steps) = 6 /\ writes = 1

\* C10: the aggregated cpu (mem) value of each timestamp is the sum, added in
\* record order, of the cpu_pct (mem_pct) of all records with that timestamp,
\* in a single entry; two records at one timestamp for two PIDs with cpu% 10
\* and 20 give one entry with cpu sum 30.
C10_SumsPerTimestamp ==
    Built =>
        LET data == Doc.chart_data
        IN  /\ \A t \in TimeSet(rows) :
                LET at == {i \in 1..Len(data.labels) : data.labels[i] = JsonString(t)}
                IN  /\ Cardinality(at) = 1
                    /\ \A i \in at :
                        /\ data.cpu[i] = SumFor(rows, t, "cpu_pct")
                        /\ data.mem[i] = SumFor(rows, t, "mem_pct")
            /\ ( /\ Len(rows) = 2
                 /\ rows[1]["time"] = rows[2]["time"]
                 /\ rows[1]["pid"] # rows[2]["pid"]
                 /\ rows[1]["cpu_pct"] = <<"1", "0">>
                 /\ rows[2]["cpu_pct"] = <<"2", "0">> )
               => data.cpu = << FloatOf(30) >>

\* The two records with cpu% 10 and 20 at one timestamp.
C10_Witness ==
    /\ Built
    /\ Len(rows) = 2
    /\ rows[1]["time"] = rows[2]["time"]
    /\ rows[1]["cpu_pct"] = <<"1", "0">>
    /\ rows[2]["cpu_pct"] = <<"2", "0">>
    /\ Len(Doc.chart_data.cpu) = 1

=============================================================================
